---- MODULE Spec2Model ----
(***************************************************************************)
(* Model of the api-gateway service: four FastAPI routes declared with     *)
(* `async def` (app/main.py) that run on one event loop, and the three     *)
(* services behind them (app/services/*.py).                               *)
(*                                                                         *)
(* JSON values are records [t, v]: t is the Python type of the decoded     *)
(* value and v its numeric content in tenths (12.5 is v = 125, the int 12  *)
(* is v = 120).  "numstr" is a str whose text is a decimal literal of      *)
(* value v, "str" any other str.  Python exceptions are records            *)
(* [type, text] where text is str(e).                                      *)
(***************************************************************************)
EXTENDS Integers, Sequences, FiniteSets, TLC

\* ---------------------------------------------------------------- bounds
MaxQueue == 1
MaxSeries == 2
MaxChoices == 2
MaxClock == 1

\* ----------------------------------------------------------- JSON values
Null == [t |-> "null", v |-> 0]
Absent == [t |-> "absent", v |-> 0]
JInt(n) == [t |-> "int", v |-> 10 * n]
JFloat(tenths) == [t |-> "float", v |-> tenths]

NoExc == [type |-> "none", text |-> ""]
Exc(ty, tx) == [type |-> ty, text |-> tx]

\* The values the upstream may put under current_weather.temperature.
TemperatureValues ==
    { Absent, Null, JInt(0), JInt(12), JFloat(-35),
      [t |-> "bool", v |-> 1], [t |-> "numstr", v |-> 125],
      [t |-> "str", v |-> 0], [t |-> "list", v |-> 0] }

\* The values the upstream may put in the relative_humidity_2m list.
SampleValues ==
    { Null, JInt(0), JFloat(615), [t |-> "str", v |-> 0] }

\* One-character strings obtained by indexing a str: a digit or a letter.
CharValues == { [t |-> "numstr", v |-> 50], [t |-> "str", v |-> 0] }

SeqsUpTo(S, n) == UNION { [1..k -> S] : k \in 0..n }

\* A decoded body is flattened: top is the type of the document, cw the
\* type of data['current_weather'] ("absent" when the key is missing),
\* temp the value of its 'temperature' key, hourly the type of
\* data['hourly'], rh the type of its 'relative_humidity_2m' key and series
\* the elements of that list (or the characters of that str).
Body(top, cw, temp, hourly, rh, series) ==
    [top |-> top, cw |-> cw, temp |-> temp, hourly |-> hourly, rh |-> rh,
     series |-> series]

CurrentWeatherParts ==
    { <<cw, Absent>> : cw \in {"absent", "null", "str", "list"} }
        \cup { <<"dict", tv>> : tv \in TemperatureValues }

HourlyParts ==
    { <<h, "absent", <<>> >> : h \in {"absent", "null", "str", "list"} }
        \cup { <<"dict", rh, <<>> >> : rh \in {"absent", "null", "int", "dict"} }
        \cup { <<"dict", "list", s>> : s \in SeqsUpTo(SampleValues, MaxSeries) }
        \cup { <<"dict", "str", s>> : s \in SeqsUpTo(CharValues, MaxSeries) }

Bodies ==
    { Body("dict", c[1], c[2], h[1], h[2], h[3]) :
          c \in CurrentWeatherParts, h \in HourlyParts }
        \cup { Body(top, "absent", Absent, "absent", "absent", <<>>) :
                   top \in {"list", "notjson"} }

\* ------------------------------------------------- Python built-ins used
\* obj.get(...) on a value that is not a dict: the method does not exist.
NoGet == Exc("AttributeError", "object has no attribute 'get'")

\* Variant of Index0 that takes the last element instead of the first.
Index0Last(ty, s) ==
    CASE ty \in {"list", "str"} ->
             IF s = <<>>
             THEN [exc |-> Exc("IndexError", "list index out of range"), val |-> Null]
             ELSE [exc |-> NoExc, val |-> s[Len(s)]]
      [] ty = "dict" -> [exc |-> Exc("KeyError", "0"), val |-> Null]
      [] OTHER -> [exc |-> Exc("TypeError", "object is not subscriptable"), val |-> Null]

\* x[0] for a value of type ty holding the elements s.
Index0(ty, s) ==
    CASE ty \in {"list"} ->
             IF s = <<>>
             THEN [exc |-> Exc("IndexError", "list index out of range"), val |-> Null]
             ELSE [exc |-> NoExc, val |-> s[1]]
      [] ty = "str" ->
             IF s = <<>>
             THEN [exc |-> Exc("IndexError", "string index out of range"), val |-> Null]
             ELSE [exc |-> NoExc, val |-> s[1]]
      [] ty = "dict" -> [exc |-> Exc("KeyError", "0"), val |-> Null]
      [] OTHER -> [exc |-> Exc("TypeError", "object is not subscriptable"), val |-> Null]

\* float(x).
Float(x) ==
    CASE x.t \in {"int", "float", "numstr"} -> [exc |-> NoExc, val |-> JFloat(x.v)]
      [] x.t = "bool" -> [exc |-> NoExc, val |-> JFloat(10 * x.v)]
      [] x.t = "str" ->
             [exc |-> Exc("ValueError", "could not convert string to float"), val |-> Null]
      [] OTHER ->
             [exc |-> Exc("TypeError", "float() argument must be a string or a real number"),
              val |-> Null]

\* `float(x) if x is not None else None`
FloatOrNone(x) ==
    IF x = Null THEN [exc |-> NoExc, val |-> Null] ELSE Float(x)

\* ------------------------------------------------------- weather service
WeatherPrefixFetch == "Errore nel recupero dei dati meteo: "
WeatherPrefixParse == "Errore nel processamento dei dati meteo: "

\* The upstream's answer to requests.get: a connection failure, or an HTTP
\* response with a status and a body.
Statuses == {200, 404, 503}

WeatherOutcomes ==
    { [kind |-> "connection_error", status |-> 0,
       body |-> Body("notjson", "absent", Absent, "absent", "absent", <<>>)] }
        \cup { [kind |-> "response", status |-> st,
                body |-> Body("notjson", "absent", Absent, "absent", "absent", <<>>)] :
                   st \in Statuses \ {200} }
        \cup { [kind |-> "response", status |-> 200, body |-> b] : b \in Bodies }

\* requests.get(self.base_url, params=params)
RequestsGet(out) ==
    IF out.kind = "connection_error"
    THEN Exc("ConnectionError", "Connection refused")
    ELSE NoExc

\* response.raise_for_status()
RaiseForStatus(out) ==
    IF out.status >= 400 /\ out.status < 600
    THEN Exc("HTTPError", IF out.status = 404 THEN "404 Client Error" ELSE "503 Server Error")
    ELSE NoExc

\* response.json(): a body that is not JSON raises; the class raised is
\* requests.exceptions.JSONDecodeError (a RequestException) or a plain
\* ValueError depending on the installed requests release.
ResponseJson(out, jsonErrIsRequestException) ==
    IF out.body.top = "notjson"
    THEN IF jsonErrIsRequestException
         THEN Exc("JSONDecodeError", "Expecting value")
         ELSE Exc("ValueError", "Expecting value")
    ELSE NoExc

\* Which of the two classes the build raises matters only when
\* response.json() is reached with a body that is not JSON.
DecodeErrorClasses(out) ==
    IF out.kind = "response" /\ out.status = 200 /\ out.body.top = "notjson"
    THEN BOOLEAN
    ELSE {TRUE}

\* data.get('current_weather', {}) then current_weather.get('temperature')
Temperature(body) ==
    IF body.top # "dict" THEN [exc |-> NoGet, val |-> Null]
    ELSE IF body.cw = "absent" THEN [exc |-> NoExc, val |-> Null]
    ELSE IF body.cw # "dict" THEN [exc |-> NoGet, val |-> Null]
    ELSE IF body.temp = Absent THEN [exc |-> NoExc, val |-> Null]
    ELSE [exc |-> NoExc, val |-> body.temp]

\* data.get('hourly', {}) then
\* hourly_data.get('relative_humidity_2m', [None])[0]
Humidity(body) ==
    IF body.hourly = "absent" THEN Index0("list", <<Null>>)
    ELSE IF body.hourly # "dict" THEN [exc |-> NoGet, val |-> Null]
    ELSE IF body.rh = "absent" THEN Index0("list", <<Null>>)
    ELSE Index0(body.rh, body.series)

NoReading == [city |-> "", temperature |-> Absent, humidity |-> Absent, timestamp |-> 0]

\* The body of the try block of WeatherService.get_cuneo_weather, statement
\* by statement: the first statement that raises ends it.
WeatherTry(out, jsonErrIsRequestException, now) ==
    LET e1 == RequestsGet(out)
        e2 == RaiseForStatus(out)
        e3 == ResponseJson(out, jsonErrIsRequestException)
        t == Temperature(out.body)
        h == Humidity(out.body)
        ft == FloatOrNone(t.val)
        fh == FloatOrNone(h.val)
    IN  IF e1 # NoExc THEN [exc |-> e1, val |-> NoReading]
        ELSE IF e2 # NoExc THEN [exc |-> e2, val |-> NoReading]
        ELSE IF e3 # NoExc THEN [exc |-> e3, val |-> NoReading]
        ELSE IF t.exc # NoExc THEN [exc |-> t.exc, val |-> NoReading]
        ELSE IF h.exc # NoExc THEN [exc |-> h.exc, val |-> NoReading]
        ELSE IF ft.exc # NoExc THEN [exc |-> ft.exc, val |-> NoReading]
        ELSE IF fh.exc # NoExc THEN [exc |-> fh.exc, val |-> NoReading]
        ELSE [exc |-> NoExc,
              val |-> [city |-> "Cuneo", temperature |-> ft.val,
                       humidity |-> fh.val, timestamp |-> now]]

RequestExceptions == {"ConnectionError", "HTTPError", "JSONDecodeError"}
ParseExceptions == {"KeyError", "IndexError", "TypeError"}

\* Variant of FetchDetail that drops the exception's text.
FetchDetailBare(e) == <<WeatherPrefixFetch>>

\* detail=f"Errore nel recupero dei dati meteo: {str(e)}"
FetchDetail(e) == <<WeatherPrefixFetch, e.text>>

\* detail=f"Errore nel processamento dei dati meteo: {str(e)}"
ParseDetail(e) == <<WeatherPrefixParse, e.text>>

\* What leaves a service: a value, an HTTPException(status_code, detail) or
\* any other exception (detail is then empty).
HTTPException(e, detail) == [type |-> "HTTPException", text |-> e.text, detail |-> detail]
Uncaught(e) == [type |-> e.type, text |-> e.text, detail |-> <<>>]
Returned == [type |-> "none", text |-> "", detail |-> <<>>]

\* The except clauses of WeatherService.get_cuneo_weather.
WeatherService_get_cuneo_weather(out, jsonErrIsRequestException, now) ==
    LET r == WeatherTry(out, jsonErrIsRequestException, now)
    IN  IF r.exc = NoExc THEN [exc |-> Returned, val |-> r.val]
        ELSE IF r.exc.type \in RequestExceptions
        THEN [exc |-> HTTPException(r.exc, FetchDetail(r.exc)), val |-> NoReading]
        ELSE IF r.exc.type \in ParseExceptions
        THEN [exc |-> HTTPException(r.exc, ParseDetail(r.exc)), val |-> NoReading]
        ELSE [exc |-> Uncaught(r.exc), val |-> NoReading]

\* ---------------------------------------------------------- chat service
ChatPrefix == "Errore nella comunicazione con OpenAI: "

Messages == {"ciao", "che ore sono"}

\* message.content of a choice: text, or None (a refusal, a tool call).
Text(s) == [t |-> "str", s |-> s]
NoneContent == [t |-> "null", s |-> ""]
Contents == {Text("salve"), Text("sono le tre"), NoneContent}

ChatErrors ==
    { Exc("APIConnectionError", "Connection error."),
      Exc("AuthenticationError", "Error code: 401"),
      Exc("RateLimitError", "Error code: 429"),
      Exc("InternalServerError", "Error code: 500") }

\* The upstream's answer to chat.completions.create: an error raised by the
\* client, or a completion with its choices.
ChatOutcomes ==
    { [kind |-> "error", error |-> e, choices |-> <<>>] : e \in ChatErrors }
        \cup { [kind |-> "completion", error |-> NoExc, choices |-> c] :
                   c \in SeqsUpTo(Contents, MaxChoices) }

\* Variant of ChatMessages that sends a system message first.
ChatMessagesWithSystem(message) ==
    <<[role |-> "system", content |-> "Sei un assistente"],
      [role |-> "user", content |-> message]>>

\* messages=[{"role": "user", "content": message}]
ChatMessages(message) == <<[role |-> "user", content |-> message]>>

\* response.choices[0].message.content
FirstChoiceContent(choices) ==
    IF choices = <<>>
    THEN [exc |-> Exc("IndexError", "list index out of range"), val |-> NoneContent]
    ELSE [exc |-> NoExc, val |-> choices[1]]

NoReply == [response |-> NoneContent, timestamp |-> 0]

\* detail=f"Errore nella comunicazione con OpenAI: {str(e)}"
ChatDetail(e) == <<ChatPrefix, e.text>>

\* OpenAIService.get_chat_response once the upstream has answered:
\* `except Exception` catches whatever the try block raises.
OpenAIService_get_chat_response(out, now) ==
    LET c == FirstChoiceContent(out.choices)
    IN  IF out.kind = "error"
        THEN [exc |-> HTTPException(out.error, ChatDetail(out.error)), val |-> NoReply]
        ELSE IF c.exc # NoExc
        THEN [exc |-> HTTPException(c.exc, ChatDetail(c.exc)), val |-> NoReply]
        ELSE [exc |-> Returned, val |-> [response |-> c.val, timestamp |-> now]]

\* ------------------------------------------------------- the HTTP surface
\* An HTTP response: code is the status code, detail the "detail" of an
\* error body (empty when the body has none), the other fields the JSON
\* body of the route that answered.
NoResponse ==
    [code |-> 0, detail |-> <<>>, city |-> "", temperature |-> Absent,
     humidity |-> Absent, timestamp |-> 0, response |-> NoneContent,
     current_time |-> 0, timezone |-> "", status |-> ""]

\* The framework's answer to an exception leaving a route: an HTTPException
\* becomes its status code with {"detail": ...}, anything else the bare
\* "Internal Server Error" page.
ErrorResponse(exc) ==
    IF exc.type = "HTTPException"
    THEN [NoResponse EXCEPT !.code = 500, !.detail = exc.detail]
    ELSE [NoResponse EXCEPT !.code = 500]

\* response_model=WeatherResponse: temperature and humidity Optional[float].
ValidWeatherResponse(val) ==
    /\ val.temperature.t \in {"float", "null"}
    /\ val.humidity.t \in {"float", "null"}

\* response_model=ChatResponse: response is a str.
ValidChatResponse(val) == val.response.t = "str"

\* GET /weather/cuneo, from the upstream's answer to the HTTP response.
WeatherRoute(out, jsonErrIsRequestException, now) ==
    LET r == WeatherService_get_cuneo_weather(out, jsonErrIsRequestException, now)
    IN  IF r.exc # Returned THEN ErrorResponse(r.exc)
        ELSE IF ~ValidWeatherResponse(r.val) THEN ErrorResponse(Uncaught(Exc("ResponseValidationError", "")))
        ELSE [NoResponse EXCEPT !.code = 200, !.city = r.val.city,
                                !.temperature = r.val.temperature,
                                !.humidity = r.val.humidity,
                                !.timestamp = r.val.timestamp]

\* POST /chat, from the upstream's answer to the HTTP response.
ChatRoute(out, now) ==
    LET r == OpenAIService_get_chat_response(out, now)
    IN  IF r.exc # Returned THEN ErrorResponse(r.exc)
        ELSE IF ~ValidChatResponse(r.val) THEN ErrorResponse(Uncaught(Exc("ResponseValidationError", "")))
        ELSE [NoResponse EXCEPT !.code = 200, !.response = r.val.response,
                                !.timestamp = r.val.timestamp]

\* The outbound calls.
NoCall ==
    [target |-> "", url |-> "", timezone |-> "", current_weather |-> FALSE,
     model |-> "", messages |-> <<>>, max_tokens |-> 0]

WeatherCall ==
    [NoCall EXCEPT !.target = "weather",
                   !.url = "https://api.open-meteo.com/v1/forecast",
                   !.timezone = "Europe/Rome", !.current_weather = TRUE]

ChatCall(message) ==
    [NoCall EXCEPT !.target = "chat", !.model = "gpt-3.5-turbo",
                   !.messages = ChatMessages(message), !.max_tokens = 150]

\* ------------------------------------------------------------- the state
Requests ==
    { [kind |-> k, message |-> ""] : k \in {"weather", "time", "health"} }
        \cup { [kind |-> "chat", message |-> m] : m \in Messages }

NoRequest == [kind |-> "none", message |-> ""]

HostTimezones == {"UTC", "Europe/Rome"}

NoWeatherOutcome ==
    [kind |-> "none", status |-> 0,
     body |-> Body("notjson", "absent", Absent, "absent", "absent", <<>>)]
NoChatOutcome == [kind |-> "none", error |-> NoExc, choices |-> <<>>]

Idle == [busy |-> FALSE, req |-> NoRequest, calls |-> <<>>]

NoExchange ==
    [req |-> NoRequest, calls |-> <<>>, wout |-> NoWeatherOutcome,
     cout |-> NoChatOutcome, resp |-> NoResponse, failedBefore |-> FALSE]

VARIABLES
    queue,          \* requests accepted by the server, not yet started
    loop,           \* the event loop: the coroutine it is executing, if any
    last,           \* the exchange completed last (request, upstream answer,
                    \* response), forgotten when the next request starts
    clock,          \* the system clock
    hostTZ,         \* the timezone of the host
    failed          \* whether an upstream call has failed so far

vars == <<queue, loop, last, clock, hostTZ, failed>>

Init ==
    /\ queue = <<>>
    /\ loop = Idle
    /\ last = NoExchange
    /\ clock = 0
    /\ hostTZ \in HostTimezones
    /\ failed = FALSE

\* A request arrives at the server.
Arrive(req) ==
    /\ Len(queue) < MaxQueue
    /\ queue' = Append(queue, req)
    /\ UNCHANGED <<loop, last, clock, hostTZ, failed>>

\* Time passes.
Tick ==
    /\ clock < MaxClock
    /\ clock' = clock + 1
    /\ UNCHANGED <<queue, loop, last, hostTZ, failed>>

\* The loop is free to start the coroutine of the next request.
CanStart(kind) ==
    /\ ~loop.busy
    /\ queue # <<>>
    /\ Head(queue).kind = kind

Complete(req, calls, wout, cout, resp) ==
    /\ last' = [req |-> req, calls |-> calls, wout |-> wout, cout |-> cout,
                resp |-> resp, failedBefore |-> failed]
    /\ loop' = Idle

\* Variant of TimeService_timezone that reports the host's zone.
TimeService_timezone_host == hostTZ

\* TimeService: self.timezone = pytz.timezone('Europe/Rome'), and
\* str(self.timezone) is the zone's name.
TimeService_timezone == "Europe/Rome"

\* GET /time: TimeService.get_current_time.
get_current_time ==
    /\ CanStart("time")
    /\ queue' = Tail(queue)
    /\ Complete(Head(queue), <<>>, NoWeatherOutcome, NoChatOutcome,
                [NoResponse EXCEPT !.code = 200, !.current_time = clock,
                                   !.timezone = TimeService_timezone])
    /\ UNCHANGED <<clock, hostTZ, failed>>

\* Variant of HealthStatus that reports upstream failures.
HealthStatusUpstream == IF failed THEN "unhealthy" ELSE "healthy"

\* return {"status": "healthy"}
HealthStatus == "healthy"

\* GET /health.
health_check ==
    /\ CanStart("health")
    /\ queue' = Tail(queue)
    /\ Complete(Head(queue), <<>>, NoWeatherOutcome, NoChatOutcome,
                [NoResponse EXCEPT !.code = 200, !.status = HealthStatus])
    /\ UNCHANGED <<clock, hostTZ, failed>>

\* GET /weather/cuneo up to requests.get: the call is synchronous, the
\* coroutine keeps the loop until the upstream has answered.
get_cuneo_weather_call ==
    /\ CanStart("weather")
    /\ queue' = Tail(queue)
    /\ loop' = [busy |-> TRUE, req |-> Head(queue), calls |-> <<WeatherCall>>]
    /\ last' = NoExchange
    /\ UNCHANGED <<clock, hostTZ, failed>>

\* GET /weather/cuneo from the upstream's answer to the response.
get_cuneo_weather_return ==
    /\ loop.busy
    /\ loop.req.kind = "weather"
    /\ \E out \in WeatherOutcomes : \E j \in DecodeErrorClasses(out) :
          LET resp == WeatherRoute(out, j, clock)
          IN  /\ Complete(loop.req, loop.calls, out, NoChatOutcome, resp)
              /\ failed' = (failed \/ resp.code # 200)
    /\ UNCHANGED <<queue, clock, hostTZ>>

\* POST /chat up to self.client.chat.completions.create: synchronous too.
chat_with_ai_call ==
    /\ CanStart("chat")
    /\ queue' = Tail(queue)
    /\ loop' = [busy |-> TRUE, req |-> Head(queue),
                calls |-> <<ChatCall(Head(queue).message)>>]
    /\ last' = NoExchange
    /\ UNCHANGED <<clock, hostTZ, failed>>

\* POST /chat from the upstream's answer to the response.
chat_with_ai_return ==
    /\ loop.busy
    /\ loop.req.kind = "chat"
    /\ \E out \in ChatOutcomes :
          LET resp == ChatRoute(out, clock)
          IN  /\ Complete(loop.req, loop.calls, NoWeatherOutcome, out, resp)
              /\ failed' = (failed \/ resp.code # 200)
    /\ UNCHANGED <<queue, clock, hostTZ>>

Next ==
    \/ \E req \in Requests : Arrive(req)
    \/ Tick
    \/ get_current_time
    \/ health_check
    \/ get_cuneo_weather_call
    \/ get_cuneo_weather_return
    \/ chat_with_ai_call
    \/ chat_with_ai_return

Spec == Init /\ [][Next]_vars

\* ------------------------------------------------------------ properties
IsNumber(x) == x.t \in {"int", "float"}

Contains(detail, text) == \E i \in 1..Len(detail) : detail[i] = text

\* The last exchange was GET /weather/cuneo and the upstream answered with
\* a JSON object under a status raise_for_status accepts.
WeatherFetched ==
    /\ last.req.kind = "weather"
    /\ last.wout.kind = "response"
    /\ last.wout.status = 200
    /\ last.wout.body.top = "dict"

WBody == last.wout.body

\* current_weather is missing, or an object whose temperature is missing,
\* null or a number.
WellFormedCurrentWeather ==
    \/ WBody.cw = "absent"
    \/ WBody.cw = "dict" /\ (WBody.temp \in {Absent, Null} \/ IsNumber(WBody.temp))

\* hourly is missing, or an object whose relative_humidity_2m is missing or
\* a list of numbers and nulls.
WellFormedHourly ==
    \/ WBody.hourly = "absent"
    \/ /\ WBody.hourly = "dict"
       /\ \/ WBody.rh = "absent"
          \/ /\ WBody.rh = "list"
             /\ \A i \in 1..Len(WBody.series) :
                    WBody.series[i] = Null \/ IsNumber(WBody.series[i])

\* The value float() gives a number: the same quantity, as a float.
SameQuantity(returned, upstream) ==
    IF upstream \in {Absent, Null}
    THEN returned = Null
    ELSE returned.t = "float" /\ returned.v = upstream.v

\* C1: when the upstream response holds a numeric current_weather
\* temperature and a non-empty relative_humidity_2m list, GET /weather/cuneo
\* answers 200 with that temperature and with the first element of the list
\* as humidity, both unchanged.
C1_ExactReading ==
    ( /\ WeatherFetched
      /\ WBody.cw = "dict" /\ IsNumber(WBody.temp)
      /\ WellFormedHourly /\ WBody.hourly = "dict" /\ WBody.rh = "list"
      /\ WBody.series # <<>> )
    => /\ last.resp.code = 200
       /\ SameQuantity(last.resp.temperature, WBody.temp)
       /\ SameQuantity(last.resp.humidity, WBody.series[1])

C1_Witness ==
    /\ WeatherFetched
    /\ WBody.cw = "dict" /\ WBody.temp = JFloat(-35)
    /\ WBody.hourly = "dict" /\ WBody.rh = "list"
    /\ WBody.series = <<JFloat(615), JInt(0)>>
    /\ last.resp.code = 200
    /\ last.resp.humidity = JFloat(615)

\* C2: when the upstream response omits current_weather (and is otherwise
\* well formed), GET /weather/cuneo answers 200 with temperature null; a
\* 200 answer has temperature null only when the upstream gave none, and an
\* upstream temperature of 0 comes back as 0.
C2_OmittedCurrentWeather ==
    /\ (WeatherFetched /\ WBody.cw = "absent" /\ WellFormedHourly)
           => (last.resp.code = 200 /\ last.resp.temperature = Null)
    /\ (WeatherFetched /\ last.resp.code = 200 /\ last.resp.temperature = Null)
           => (WBody.cw = "absent" \/ WBody.temp \in {Absent, Null})
    /\ (WeatherFetched /\ last.resp.code = 200 /\ WBody.temp = JInt(0))
           => last.resp.temperature = JFloat(0)

\* C3: when the upstream response was fetched and holds no humidity sample
\* (hourly missing, relative_humidity_2m missing, or the list empty),
\* GET /weather/cuneo answers 200 with humidity null and the temperature
\* of current_weather.
C3_MissingHumidity ==
    ( /\ WeatherFetched
      /\ WellFormedCurrentWeather
      /\ \/ WBody.hourly = "absent"
         \/ WBody.hourly = "dict" /\ WBody.rh = "absent"
         \/ WBody.hourly = "dict" /\ WBody.rh = "list" /\ WBody.series = <<>> )
    => /\ last.resp.code = 200
       /\ last.resp.humidity = Null
       /\ SameQuantity(last.resp.temperature, WBody.temp)

\* The exception requests raises for the upstream's answer, if any.
TransportError(out) ==
    IF RequestsGet(out) # NoExc THEN RequestsGet(out) ELSE RaiseForStatus(out)

\* C4: when the outbound weather call raises a transport error (connection
\* error, or an error status raised by raise_for_status), GET /weather/cuneo
\* answers 500 with a detail that contains the exception's text, and no
\* reading.
C4_TransportError ==
    (last.req.kind = "weather" /\ TransportError(last.wout) # NoExc)
    => /\ last.resp.code = 500
       /\ Contains(last.resp.detail, TransportError(last.wout).text)
       /\ last.resp.city = ""
       /\ last.resp.temperature = Absent
       /\ last.resp.humidity = Absent

C4_Witness ==
    /\ last.req.kind = "weather"
    /\ last.wout.kind = "response"
    /\ last.wout.status = 503
    /\ last.resp.code = 500
    /\ last.resp.detail = <<WeatherPrefixFetch, "503 Server Error">>

\* The shapes of a structurally malformed weather document.
Malformed ==
    \/ WBody.cw \in {"null", "str", "list"}
    \/ WBody.hourly \in {"null", "str", "list"}
    \/ WBody.hourly = "dict" /\ WBody.rh \in {"null", "int", "dict", "str"}
    \/ WBody.cw = "dict" /\ WBody.temp.t \in {"str", "list"}
    \/ /\ WBody.hourly = "dict" /\ WBody.rh = "list"
       /\ WBody.series # <<>> /\ WBody.series[1].t = "str"

\* C5: every structurally malformed upstream weather response ends in a 500
\* answer that carries a detail string.
C5_MalformedIsUpstreamError ==
    (WeatherFetched /\ Malformed)
    => (last.resp.code = 500 /\ last.resp.detail # <<>>)

ChatDone == last.req.kind = "chat"

\* C6: for POST /chat with message m whose upstream call succeeds, the
\* outbound payload holds exactly one message, of role "user" and content
\* m, and the 200 reply's "response" is the first choice's content.
C6_ChatPassThrough ==
    (ChatDone /\ last.cout.kind = "completion")
    => /\ Len(last.calls) = 1
       /\ last.calls[1].messages = <<[role |-> "user", content |-> last.req.message]>>
       /\ last.resp.code = 200
              => (last.cout.choices # <<>>
                    /\ last.resp.response = last.cout.choices[1])
       /\ (last.cout.choices # <<>> /\ last.cout.choices[1].t = "str")
              => last.resp.code = 200

C6_Witness ==
    /\ ChatDone
    /\ last.req.message = "ciao"
    /\ last.cout.choices = <<Text("salve"), Text("sono le tre")>>
    /\ last.resp.code = 200
    /\ last.resp.response = Text("salve")

\* C7: POST /chat ends in 200 with a ChatResponse or in 500 with a detail
\* that carries the cause, and in nothing else.
C7_ChatTwoOutcomes ==
    ChatDone
    => \/ last.resp.code = 200 /\ last.resp.response.t = "str"
       \/ last.resp.code = 500 /\ Len(last.resp.detail) = 2
              /\ last.resp.detail[1] = ChatPrefix

\* C8: GET /health answers 200 with status "healthy", makes no outbound
\* call, whether or not an upstream call has failed before.
C8_HealthAlwaysHealthy ==
    last.req.kind = "health"
    => /\ last.resp.code = 200
       /\ last.resp.status = "healthy"
       /\ last.calls = <<>>

C8_Witness ==
    /\ last.req.kind = "health"
    /\ last.failedBefore
    /\ last.resp.status = "healthy"

\* C9: GET /time answers 200, makes no outbound call, and its timezone is
\* "Europe/Rome" whatever the host's timezone.
C9_TimeZoneFixed ==
    last.req.kind = "time"
    => /\ last.resp.code = 200
       /\ last.resp.timezone = "Europe/Rome"
       /\ last.calls = <<>>

C9_Witness ==
    /\ last.req.kind = "time"
    /\ hostTZ = "UTC"
    /\ last.resp.timezone = "Europe/Rome"

\* C10: a handler makes at most one outbound call, and while that call is
\* in flight a GET /health or GET /time that has arrived can be served.
C10_ServedWhileInFlight ==
    /\ Len(loop.calls) <= 1
    /\ (loop.busy /\ queue # <<>> /\ Head(queue).kind \in {"health", "time"})
           => ENABLED (health_check \/ get_current_time)

====
